---- MODULE Spec2Model ----
(***************************************************************************)
(* Lifecycle of the Gaussian-splat viewer: the GaussianSplatViewer effect   *)
(* (initViewer / cleanup) in its AbortController variant and in the legacy  *)
(* variant without a cancellation token, its frame-rate sampler, and the    *)
(* App shell that feeds it a memoized models array.                         *)
(*                                                                         *)
(* A renderer handle is identified with the load session that constructed  *)
(* it: handle s is the `viewer` local of the s-th run of the effect.         *)
(***************************************************************************)
EXTENDS Integers, Sequences, FiniteSets, TLC

\* ------------------------------------------------------------------ bounds
\* Number of effect runs (load sessions) explored.
MaxSessions == 2
\* Distinct array references an arbitrary parent may pass as `models`
\* (reference 0 is the empty array).
NumRefs == 3
\* performance.now() is explored up to this many milliseconds.
MaxTime == 2400
\* Frames counted by the sampler within one sampling window.
MaxFrames == 2

\* ------------------------------------------------------- program constants
\* The sampling window of updateFPS, in milliseconds.
FpsWindowMs == 1000

\* src/data/models.ts
AVAILABLE_MODELS == <<"Bonsai", "Guitar", "Train", "Truck", "Nike (Antimatter15)", "Plush (Antimatter15)">>

\* The arrays an arbitrary parent holds: reference 0 is [], odd references
\* hold the first catalog entry, even references the second one, so that
\* references 1 and 3 are distinct arrays with an equal descriptor.
ModelsAt(r) ==
  IF r = 0 THEN <<>> ELSE <<AVAILABLE_MODELS[2 - (r % 2)]>>

ParentLists == {[ref |-> r, items |-> ModelsAt(r)] : r \in 0..NumRefs}

\* Advances of the clock between two events.
ClockSteps == {1000}

\* Splat counts the renderer may report (0: getSplatMesh unavailable).
SplatCounts == {7}

\* Percentages the renderer reports through the progress callback, as
\* fractional values in tenths of a percent.
ProgressTenths == {495, 1000}

NoStats == [fps |-> -1, splatCount |-> -1, loadTime |-> -1]
NoSample == [since |-> 0, frames |-> -1, elapsed |-> -1, fps |-> -1]
NoError == ""
NoModels == [ref |-> 0, items |-> <<>>]

VARIABLES
  mounted,        \* the GaussianSplatViewer component is mounted
  models,         \* its `models` prop: [ref, items]
  viewerRef,      \* viewerRef.current: 0 (null) or a handle
  isLoading,      \* viewer state isLoading
  loadProgress,   \* viewer state loadProgress
  stats,          \* viewer state stats (NoStats: null)
  error,          \* viewer state error (NoError: null)
  frameCountRef,  \* frameCountRef.current
  lastTimeRef,    \* lastTimeRef.current
  samplerLog,     \* frames rendered since the sample point was set, and the
                  \* frames, elapsed time and rate of the last publication
  sess,           \* the effect runs: closure state and handle of each
  nsess,          \* number of effect runs that opened a session
  cur,            \* the run whose cleanup is registered (0: none)
  now,            \* performance.now()
  cleanupLog,     \* steps of the most recent cleanup, in order
  lastRender,     \* what the last commit of the viewer was
  selectedModel,  \* App state selectedModel (0: null, else catalog index)
  appIsLoading,   \* App state isLoading
  modelArray,     \* App's memoized modelArray
  memoDep,        \* the selectedModel modelArray was computed for (-1: never)
  nextRef,        \* next fresh array reference App allocates
  renderPending,  \* App has a state update not yet rendered
  selectorDisabled, \* `disabled` of the committed ModelSelector
  appRendered,    \* App has rendered at least once
  repicked        \* the user picked the selected option again since the
                  \* selection last changed

viewerVars == <<mounted, models, viewerRef, isLoading, loadProgress,
                stats, error, frameCountRef, lastTimeRef, samplerLog, sess,
                nsess, cur, cleanupLog, lastRender>>
appVars == <<selectedModel, appIsLoading, modelArray, memoDep, nextRef,
             renderPending, selectorDisabled, appRendered, repicked>>
vars == <<viewerVars, appVars, now>>

Sessions == 1..MaxSessions

\* Closure and handle of an effect run that has not happened yet. `settled`
\* is how the promise of addSplatScenes settled, `failed` whether the catch
\* block of initViewer ran, `unhandled` whether the promise of initViewer
\* rejected, `abortedAt` where the run was when its signal was set,
\* `resized` whether handleResize used the handle, `usedAfterDispose` whether
\* a method was called on the handle after dispose() had been called on it,
\* `settledWhileLive` whether another handle was live when the load settled,
\* `disposeResult` the state of the promise dispose() returned,
\* `openedWhileActive` whether an earlier run's signal was still unset when
\* this run began, `remountOf` the run of the first mount when this run is
\* the second effect run of a StrictMode mount (0 otherwise), `steps` the
\* steps of initViewer's success path the run has taken, in order.
NoSession ==
  [pc |-> "idle", aborted |-> FALSE, models |-> NoModels,
   startTime |-> 0, ctorCalls |-> 0, constructed |-> FALSE, fetches |-> <<>>,
   startCalls |-> 0, started |-> FALSE, disposeCalls |-> 0,
   onLoadCalls |-> 0, onErrorCalls |-> 0, cbAfterAbort |-> FALSE,
   progressAfterAbort |-> FALSE, raf |-> FALSE,
   settled |-> "none", failed |-> FALSE, unhandled |-> FALSE,
   abortedAt |-> "none", resized |-> FALSE, usedAfterDispose |-> FALSE,
   settledWhileLive |-> FALSE, disposeResult |-> "none",
   openedWhileActive |-> FALSE, remountOf |-> 0, steps |-> <<>>]

\* The viewer's state as one value, so that the steps of a handler compose.
View ==
  [mounted |-> mounted, viewerRef |-> viewerRef, isLoading |-> isLoading,
   loadProgress |-> loadProgress, stats |-> stats, error |-> error,
   sess |-> sess, nsess |-> nsess, cur |-> cur, cleanupLog |-> cleanupLog,
   lastRender |-> lastRender]

Commit(v) ==
  /\ mounted' = v.mounted
  /\ viewerRef' = v.viewerRef
  /\ isLoading' = v.isLoading
  /\ loadProgress' = v.loadProgress
  /\ stats' = v.stats
  /\ error' = v.error
  /\ sess' = v.sess
  /\ nsess' = v.nsess
  /\ cur' = v.cur
  /\ cleanupLog' = v.cleanupLog
  /\ lastRender' = v.lastRender

\* The steps of initViewer when nothing fails and nothing cancels, in the
\* order of the code.
initViewerSteps ==
  <<"construct", "addSplatScenes", "stats", "onLoad", "start", "publish",
    "requestAnimationFrame">>

\* Run s takes the named step of initViewer.
step(v, s, name) ==
  [v EXCEPT !.sess[s].steps = Append(@, name)]

\* ------------------------------------------------------------ the handle
\* A method of handle h is called: it is a use after disposal when dispose()
\* was called on h before.
use(v, h) ==
  [v EXCEPT !.sess[h].usedAfterDispose = @ \/ v.sess[h].disposeCalls > 0]

\* viewer.dispose() is called on handle h: it returns a promise.
dispose(v, h) ==
  [use(v, h) EXCEPT !.sess[h].disposeCalls = @ + 1,
                    !.sess[h].disposeResult = "pending"]

\* A handler of a rejected disposal that reports it as a load failure.
surfaceDisposeError(v, s) ==
  [v EXCEPT !.error = "failed", !.isLoading = FALSE,
            !.sess[s].onErrorCalls = @ + 1]

\* What the code does with a rejected disposal: `catch { /* ignore */ }`
\* around the awaited ones, `.catch(...)` with a debug log on the one the
\* cleanup fires.
swallowDisposeError(v, s) ==
  v

\* A checkpoint that returns without disposing the handle.
returnWithoutDispose(v, s) ==
  [v EXCEPT !.sess[s].pc = "disposing"]

\* A checkpoint that disposes whatever handle is published, not the one the
\* run constructed.
disposePublished(v, s) ==
  IF v.viewerRef # 0
    THEN [dispose(v, v.viewerRef) EXCEPT !.viewerRef = 0,
                                         !.sess[s].pc = "disposing"]
    ELSE [dispose(v, s) EXCEPT !.sess[s].pc = "disposing"]

\* `try { await viewer.dispose(); } catch {}`: the run suspends until the
\* disposal settles.
disposeAwait(v, s) ==
  [dispose(v, s) EXCEPT !.sess[s].pc = "disposing"]

\* ------------------------------------------------------------- callbacks
\* onLoad?.() / onError?.() as the run invokes them; cbAfterAbort records
\* whether the run's abort signal was already set at the call.
\* An initViewer that goes on to start() without telling the host.
skipOnLoad(v, s) ==
  v

callOnLoad(v, s) ==
  [step(v, s, "onLoad") EXCEPT !.sess[s].onLoadCalls = @ + 1,
                               !.sess[s].cbAfterAbort = @ \/ v.sess[s].aborted]

callOnError(v, s) ==
  [v EXCEPT !.sess[s].onErrorCalls = @ + 1,
            !.sess[s].cbAfterAbort = @ \/ v.sess[s].aborted]

\* --------------------------------------------------------------- cleanup
\* Where run s is: awaiting addSplatScenes, resumed after it and not yet at
\* the start, live, or over (failed, or awaiting its own disposal).
position(v, s) ==
  CASE v.sess[s].pc = "loading" /\ v.sess[s].settled = "none" -> "inflight"
    [] v.sess[s].pc = "loading" /\ v.sess[s].settled = "resolved" -> "beforestart"
    [] v.sess[s].started -> "live"
    [] OTHER -> "over"

\* A teardown that also disposes the handle of the run it cancels.
abortAndDispose(v) ==
  LET c == v.cur
      set == [v EXCEPT !.sess[c].aborted = TRUE,
                       !.sess[c].abortedAt = position(v, c),
                       !.cleanupLog = Append(@, "abort")]
  IN IF v.sess[c].constructed /\ v.sess[c].disposeCalls = 0 /\ v.viewerRef # c
       THEN dispose(set, c) ELSE set

\* abortController.abort()
abortStep(v) ==
  [v EXCEPT !.sess[v.cur].aborted = TRUE,
            !.sess[v.cur].abortedAt = position(v, v.cur),
            !.cleanupLog = Append(@, "abort")]

\* A cleanup that disposes the live handle and leaves it in viewerRef.current.
disposeKeepRef(v) ==
  IF v.viewerRef # 0
    THEN [dispose(v, v.viewerRef) EXCEPT !.cleanupLog = Append(@, "dispose")]
    ELSE v

\* A cleanup that clears viewerRef.current and forgets to dispose it.
dropLiveStep(v) ==
  IF v.viewerRef # 0
    THEN [v EXCEPT !.viewerRef = 0, !.cleanupLog = Append(@, "drop")]
    ELSE v

\* if (viewerRef.current) { viewerRef.current = null; dispose().catch(..) }
disposeLiveStep(v) ==
  IF v.viewerRef # 0
    THEN [dispose(v, v.viewerRef) EXCEPT !.viewerRef = 0,
                                         !.cleanupLog = Append(@, "dispose")]
    ELSE v

\* A cleanup that disposes the live handle before it aborts.
cleanupDisposeFirst(v) ==
  [abortStep(disposeLiveStep([v EXCEPT !.cleanupLog = <<>>])) EXCEPT !.cur = 0]

\* The function the effect returns.
cleanup(v) ==
  [disposeLiveStep(abortStep([v EXCEPT !.cleanupLog = <<>>])) EXCEPT !.cur = 0]

\* An effect that is run again without the previous run's cleanup.
noCleanup(v) ==
  v

\* React runs the previous effect's cleanup, if the effect returned one.
runCleanup(v) ==
  IF v.cur = 0 THEN v ELSE cleanup(v)

\* ------------------------------------------------------------ initViewer
\* A catch block that swallows the failure: it disposes and reports nothing.
catchBlockSilent(v, s, msg, onError) ==
  LET caught == [v EXCEPT !.sess[s].failed = TRUE]
  IN IF caught.sess[s].constructed /\ s # caught.viewerRef
       THEN disposeAwait(caught, s)
       ELSE [caught EXCEPT !.sess[s].pc = "done"]

\* A catch block that sets the error and leaves the loading flag alone.
catchBlockKeepsLoading(v, s, msg, onError) ==
  LET caught == [v EXCEPT !.sess[s].failed = TRUE]
      reported ==
        IF ~caught.sess[s].aborted
          THEN callOnError([caught EXCEPT !.error = msg], s)
          ELSE caught
  IN IF ~caught.sess[s].aborted /\ onError = "throws"
       THEN [reported EXCEPT !.sess[s].unhandled = TRUE, !.sess[s].pc = "done"]
       ELSE IF reported.sess[s].constructed /\ s # reported.viewerRef
         THEN disposeAwait(reported, s)
         ELSE [reported EXCEPT !.sess[s].pc = "done"]

\* The catch block of initViewer. onError is the host's callback: it
\* returns, or it throws, and then the exception leaves the catch block
\* before the disposal and rejects the promise of initViewer.
catchBlock(v, s, msg, onError) ==
  LET caught == [v EXCEPT !.sess[s].failed = TRUE]
      reported ==
        IF ~caught.sess[s].aborted
          THEN callOnError([caught EXCEPT !.error = msg, !.isLoading = FALSE], s)
          ELSE caught
  IN IF ~caught.sess[s].aborted /\ onError = "throws"
       THEN [reported EXCEPT !.sess[s].unhandled = TRUE, !.sess[s].pc = "done"]
       ELSE IF reported.sess[s].constructed /\ s # reported.viewerRef
         THEN disposeAwait(reported, s)
         ELSE [reported EXCEPT !.sess[s].pc = "done"]

\* initViewer up to its first await: state reset, construction, the
\* checkpoint after construction, and the call of addSplatScenes.
initViewer(v, s, ctor, onError) ==
  LET reset == [v EXCEPT !.isLoading = TRUE, !.error = NoError,
                         !.loadProgress = 0,
                         !.sess[s].ctorCalls = @ + 1]
      built == step([reset EXCEPT !.sess[s].constructed = TRUE], s, "construct")
  IN IF ctor = "throws"
       THEN catchBlock(reset, s, "failed", onError)
       ELSE IF built.sess[s].aborted
         THEN disposeAwait(built, s)
         ELSE [step(built, s, "addSplatScenes") EXCEPT
                 !.sess[s].fetches = Append(@, built.sess[s].models.items),
                 !.sess[s].pc = "loading"]

\* containerRef.current when the effect runs: the container div is rendered
\* unconditionally, so the ref is set whenever an effect of the component
\* runs.
containerRef ==
  TRUE

\* An effect without the guard: it initializes whatever it is given.
guardOmitted(m) ==
  FALSE

\* if (!containerRef.current || models.length === 0) return;
effectReturnsEarly(m) ==
  ~containerRef \/ Len(m.items) = 0

\* The body of the effect for the models prop m at time t.
useEffectBody(v, m, ctor, onError, t) ==
  IF effectReturnsEarly(m)
    THEN [v EXCEPT !.cur = 0]
    ELSE LET s == v.nsess + 1
             opened == [v EXCEPT !.nsess = s, !.cur = s,
                                 !.sess[s] = [NoSession EXCEPT
                                    !.models = m, !.startTime = t,
                                    !.openedWhileActive =
                                       \E r \in 1..v.nsess : ~v.sess[r].aborted]]
         IN initViewer(opened, s, ctor, onError)

\* An effect without a dependency list runs again on every render.
depsOmitted(m, cbNew) ==
  TRUE

\* A dependency list that compares the models arrays by their contents.
depsDeepEqual(m, cbNew) ==
  m.items # models.items \/ cbNew

\* The dependency list [models, onLoad, onProgress, onError, updateFPS],
\* compared by identity with the previous render's: m is the models prop,
\* cbNew tells whether a callback prop is a new function object; updateFPS
\* is a useCallback with no dependencies.
depsChanged(m, cbNew) ==
  m.ref # models.ref \/ cbNew

\* What the parent passed, relative to the previous render.
sameProps(m, cbNew) ==
  m.ref = models.ref /\ ~cbNew

\* viewer.start(), publication and the first requestAnimationFrame, or the
\* disposal when the signal was set meanwhile.
startOrDispose(v, s, start, onError) ==
  IF ~v.sess[s].aborted
    THEN LET called == [step(use(v, s), s, "start") EXCEPT
                          !.sess[s].startCalls = @ + 1]
             published == [step(called, s, "publish") EXCEPT
                             !.sess[s].started = TRUE, !.viewerRef = s]
         IN IF start = "throws"
              THEN catchBlock(called, s, "failed", onError)
              ELSE [step(published, s, "requestAnimationFrame") EXCEPT
                      !.sess[s].raf = TRUE, !.sess[s].pc = "done"]
    ELSE disposeAwait(v, s)

\* A run that does not consult the signal after the await.
signalIgnored(v, s) ==
  FALSE

\* The signal is consulted after the await of addSplatScenes.
abortedAfterLoad(v, s) ==
  v.sess[s].aborted

\* initViewer after addSplatScenes resolved. onLoad is the host's callback:
\* it returns, throws, or synchronously unmounts the viewer.
afterLoad(v, s, t, count, onLoad, start, onError) ==
  IF abortedAfterLoad(v, s)
    THEN disposeAwait(v, s)
    ELSE LET shown == [step(v, s, "stats") EXCEPT
                         !.stats = [fps |-> 0, splatCount |-> count,
                                    loadTime |-> t - v.sess[s].startTime],
                         !.isLoading = FALSE]
             told == callOnLoad(shown, s)
         IN CASE onLoad = "throws" -> catchBlock(told, s, "failed", onError)
              [] onLoad = "unmounts" ->
                   startOrDispose([runCleanup(told) EXCEPT !.mounted = FALSE,
                                                           !.lastRender = "unmount"],
                                  s, start, onError)
              [] OTHER -> startOrDispose(told, s, start, onError)

\* Math.round of a percentage given in tenths.
RoundTenths(p) == (p + 5) \div 10

\* A progress callback without the guard on the signal.
progressUnguarded(v, s, p) ==
  [v EXCEPT !.loadProgress = RoundTenths(p),
            !.sess[s].progressAfterAbort = @ \/ v.sess[s].aborted]

\* The progress callback passed to addSplatScenes.
progressCallback(v, s, p) ==
  IF ~v.sess[s].aborted
    THEN [v EXCEPT !.loadProgress = RoundTenths(p),
                   !.sess[s].progressAfterAbort = @ \/ v.sess[s].aborted]
    ELSE v

\* ---------------------------------------------------- frame-rate sampler
\* Math.round(a / b) for a >= 0, b > 0.
Round(a, b) == (2 * a + b) \div (2 * b)

\* updateFPS at time t: the new frame counter, sample point and, when a rate
\* is published, the rate (-1: nothing published).
updateFPS(count, last, t) ==
  LET n == count + 1
  IN IF last = 0
       THEN [count |-> n, last |-> t, fps |-> -1]
       ELSE IF t - last >= FpsWindowMs
         THEN [count |-> 0, last |-> t, fps |-> Round(n * 1000, t - last)]
         ELSE [count |-> n, last |-> last, fps |-> -1]

\* An animate that samples and reschedules unconditionally.
animateUnguarded(s) ==
  TRUE

\* The guard of animate: the run samples and reschedules only then.
animateGuard(s) ==
  viewerRef # 0 /\ ~sess[s].aborted

\* ------------------------------------------------------------- actions
\* The parent mounts the viewer with the models prop m: fresh component
\* state, then the effect runs.
Mount(m, ctor, onError) ==
  /\ ~mounted
  /\ Len(m.items) > 0 => nsess < MaxSessions
  /\ LET fresh == [View EXCEPT !.mounted = TRUE, !.viewerRef = 0,
                                !.isLoading = TRUE, !.loadProgress = 0,
                                !.stats = NoStats, !.error = NoError,
                                !.cur = 0, !.lastRender = "mount"]
     IN Commit(useEffectBody(fresh, m, ctor, onError, now))
  /\ models' = m
  /\ frameCountRef' = 0
  /\ lastTimeRef' = 0
  /\ samplerLog' = NoSample
  /\ UNCHANGED now

\* The parent mounts the viewer under <StrictMode> (development build):
\* React runs the effect, then at once its cleanup and the effect again,
\* with the component's state and refs kept.
StrictModeMount(m, ctor1, ctor2, onError) ==
  /\ ~mounted
  /\ Len(m.items) > 0 => nsess + 2 <= MaxSessions
  /\ LET fresh == [View EXCEPT !.mounted = TRUE, !.viewerRef = 0,
                                !.isLoading = TRUE, !.loadProgress = 0,
                                !.stats = NoStats, !.error = NoError,
                                !.cur = 0, !.lastRender = "mount"]
         first == useEffectBody(fresh, m, ctor1, onError, now)
         second == useEffectBody(runCleanup(first), m, ctor2, onError, now)
     IN Commit(IF second.cur # 0
                 THEN [second EXCEPT !.sess[second.cur].remountOf = first.cur]
                 ELSE second)
  /\ models' = m
  /\ frameCountRef' = 0
  /\ lastTimeRef' = 0
  /\ samplerLog' = NoSample
  /\ UNCHANGED now

\* The parent re-renders the mounted viewer with the models prop m and
\* callback props that are new function objects or not: React runs the
\* cleanup and the effect again when a dependency changed.
Rerender(m, cbNew, ctor, onError) ==
  /\ mounted
  /\ LET rendered == [View EXCEPT !.lastRender =
                        IF sameProps(m, cbNew) THEN "same" ELSE "changed"]
     IN IF depsChanged(m, cbNew)
          THEN /\ Len(m.items) > 0 => nsess < MaxSessions
               /\ Commit(useEffectBody(runCleanup(rendered), m, ctor, onError, now))
          ELSE Commit(rendered)
  /\ models' = m
  /\ UNCHANGED <<frameCountRef, lastTimeRef, samplerLog, now>>

\* The parent unmounts the viewer: React runs the cleanup.
Unmount ==
  /\ mounted
  /\ Commit([runCleanup(View) EXCEPT !.mounted = FALSE, !.lastRender = "unmount"])
  /\ UNCHANGED <<models, frameCountRef, lastTimeRef, samplerLog, now>>

\* addSplatScenes of run s resolves and initViewer resumes.
LoadResolve(s, count, onLoad, start, onError) ==
  /\ sess[s].pc = "loading"
  /\ Commit(afterLoad([View EXCEPT !.sess[s].settled = "resolved",
                                   !.sess[s].settledWhileLive = (viewerRef # 0)],
                      s, now, count, onLoad, start, onError))
  /\ UNCHANGED <<models, frameCountRef, lastTimeRef, samplerLog, now>>

\* addSplatScenes of run s rejects and initViewer resumes in its catch.
LoadReject(s, onError) ==
  /\ sess[s].pc = "loading"
  /\ Commit(catchBlock([View EXCEPT !.sess[s].settled = "rejected",
                                    !.sess[s].settledWhileLive = (viewerRef # 0)],
                        s, "failed", onError))
  /\ UNCHANGED <<models, frameCountRef, lastTimeRef, samplerLog, now>>

\* The renderer reports progress p (tenths of a percent) for run s.
Progress(s, p) ==
  /\ sess[s].pc = "loading"
  /\ Commit(progressCallback(View, s, p))
  /\ UNCHANGED <<models, frameCountRef, lastTimeRef, samplerLog, now>>

\* The promise of a dispose() on handle s settles: the rejection is handled
\* where the call was made, and a run that awaited it returns.
DisposeSettle(s, outcome) ==
  /\ sess[s].disposeResult = "pending"
  /\ LET settled == [View EXCEPT !.sess[s].disposeResult = outcome,
                                  !.sess[s].pc = IF @ = "disposing" THEN "done" ELSE @]
     IN Commit(IF outcome = "rejected"
                 THEN swallowDisposeError(settled, s) ELSE settled)
  /\ UNCHANGED <<models, frameCountRef, lastTimeRef, samplerLog, now>>

\* The animation frame requested by run s fires: animate.
Animate(s) ==
  /\ sess[s].raf
  /\ IF animateGuard(s)
       THEN LET u == updateFPS(frameCountRef, lastTimeRef, now)
            IN /\ frameCountRef < MaxFrames
               /\ frameCountRef' = u.count
               /\ lastTimeRef' = u.last
               /\ samplerLog' =
                    IF lastTimeRef = 0 THEN [samplerLog EXCEPT !.since = 0]
                    ELSE IF u.fps >= 0
                      THEN [since |-> 0, frames |-> samplerLog.since + 1,
                            elapsed |-> now - lastTimeRef, fps |-> u.fps]
                      ELSE [samplerLog EXCEPT !.since = @ + 1]
               /\ Commit([View EXCEPT !.stats =
                            IF u.fps >= 0 /\ @ # NoStats
                              THEN [@ EXCEPT !.fps = u.fps] ELSE @])
       ELSE /\ Commit([View EXCEPT !.sess[s].raf = FALSE])
            /\ UNCHANGED <<frameCountRef, lastTimeRef, samplerLog>>
  /\ UNCHANGED <<models, now>>

\* A window resize event while the component is mounted: handleResize reads
\* camera and renderer of viewerRef.current and calls forceRenderNextFrame
\* on it, when viewerRef.current is set (the container div is always there).
handleResize ==
  /\ mounted
  /\ Commit(IF viewerRef # 0
              THEN [use(View, viewerRef) EXCEPT !.sess[viewerRef].resized = TRUE]
              ELSE View)
  /\ UNCHANGED <<models, frameCountRef, lastTimeRef, samplerLog, now>>

\* Time passes.
Tick(d) ==
  /\ now + d <= MaxTime
  /\ now' = now + d
  /\ UNCHANGED <<viewerVars, appVars>>

CtorOutcomes == {"ok", "throws"}
OnLoadOutcomes == {"returns", "throws", "unmounts"}
OnErrorOutcomes == {"returns", "throws"}
DisposeOutcomes == {"resolved", "rejected"}
StartOutcomes == {"ok", "throws"}

\* ------------------------------------------------- the viewer on its own
Init ==
  /\ mounted = FALSE
  /\ models = NoModels
  /\ viewerRef = 0
  /\ isLoading = TRUE
  /\ loadProgress = 0
  /\ stats = NoStats
  /\ error = NoError
  /\ frameCountRef = 0
  /\ lastTimeRef = 0
  /\ samplerLog = NoSample
  /\ sess = [s \in Sessions |-> NoSession]
  /\ nsess = 0
  /\ cur = 0
  /\ now = 400
  /\ cleanupLog = <<>>
  /\ lastRender = "none"
  /\ selectedModel = 0
  /\ appIsLoading = FALSE
  /\ modelArray = NoModels
  /\ memoDep = -1
  /\ nextRef = 1
  /\ renderPending = FALSE
  /\ selectorDisabled = FALSE
  /\ appRendered = FALSE
  /\ repicked = FALSE

\* The viewer driven by an arbitrary parent and an arbitrary renderer, at a
\* fixed reading of the clock.
Next ==
  \/ \E m \in ParentLists, ctor \in CtorOutcomes, onError \in OnErrorOutcomes :
       Mount(m, ctor, onError) /\ UNCHANGED appVars
  \/ \E m \in ParentLists, cbNew \in BOOLEAN, ctor \in CtorOutcomes,
        onError \in OnErrorOutcomes :
       Rerender(m, cbNew, ctor, onError) /\ UNCHANGED appVars
  \/ Unmount /\ UNCHANGED appVars
  \/ \E s \in Sessions, count \in SplatCounts, onLoad \in OnLoadOutcomes,
        start \in StartOutcomes, onError \in OnErrorOutcomes :
       LoadResolve(s, count, onLoad, start, onError) /\ UNCHANGED appVars
  \/ \E s \in Sessions, onError \in OnErrorOutcomes :
       LoadReject(s, onError) /\ UNCHANGED appVars
  \/ \E s \in Sessions, p \in ProgressTenths : Progress(s, p) /\ UNCHANGED appVars
  \/ \E s \in Sessions, outcome \in DisposeOutcomes :
       DisposeSettle(s, outcome) /\ UNCHANGED appVars
  \/ \E s \in Sessions : Animate(s) /\ UNCHANGED appVars
  \/ handleResize /\ UNCHANGED appVars

Spec == Init /\ [][Next]_vars

\* The viewer mounted under <StrictMode>, otherwise driven as above.
StrictNext ==
  \/ \E m \in ParentLists, ctor1 \in CtorOutcomes, ctor2 \in CtorOutcomes,
        onError \in OnErrorOutcomes :
       StrictModeMount(m, ctor1, ctor2, onError) /\ UNCHANGED appVars
  \/ \E m \in ParentLists, cbNew \in BOOLEAN, ctor \in CtorOutcomes,
        onError \in OnErrorOutcomes :
       Rerender(m, cbNew, ctor, onError) /\ UNCHANGED appVars
  \/ Unmount /\ UNCHANGED appVars
  \/ \E s \in Sessions, count \in SplatCounts, onLoad \in OnLoadOutcomes,
        start \in StartOutcomes, onError \in OnErrorOutcomes :
       LoadResolve(s, count, onLoad, start, onError) /\ UNCHANGED appVars
  \/ \E s \in Sessions, onError \in OnErrorOutcomes :
       LoadReject(s, onError) /\ UNCHANGED appVars
  \/ \E s \in Sessions, p \in ProgressTenths : Progress(s, p) /\ UNCHANGED appVars
  \/ \E s \in Sessions, outcome \in DisposeOutcomes :
       DisposeSettle(s, outcome) /\ UNCHANGED appVars
  \/ \E s \in Sessions : Animate(s) /\ UNCHANGED appVars
  \/ handleResize /\ UNCHANGED appVars

StrictSpec == Init /\ [][StrictNext]_vars

\* The same with the clock advancing.
TimedNext ==
  \/ Next
  \/ \E d \in ClockSteps : Tick(d)

TimedSpec == Init /\ [][TimedNext]_vars

\* The viewer and its frame-rate sampler with the clock advancing, driven by
\* an arbitrary parent and a renderer that constructs, loads, starts and
\* disposes without failing (a sampler is only ever started by a run in
\* which nothing failed) and callbacks that return.
SamplerNext ==
  \/ \E m \in ParentLists : Mount(m, "ok", "returns") /\ UNCHANGED appVars
  \/ \E m \in ParentLists, cbNew \in BOOLEAN :
       Rerender(m, cbNew, "ok", "returns") /\ UNCHANGED appVars
  \/ Unmount /\ UNCHANGED appVars
  \/ \E s \in Sessions, count \in SplatCounts :
       LoadResolve(s, count, "returns", "ok", "returns") /\ UNCHANGED appVars
  \/ \E s \in Sessions : DisposeSettle(s, "resolved") /\ UNCHANGED appVars
  \/ \E s \in Sessions : Animate(s) /\ UNCHANGED appVars
  \/ \E d \in ClockSteps : Tick(d)

SamplerSpec == Init /\ [][SamplerNext]_vars

\* ------------------------------------------- the legacy controller variant
\* The variant without a cancellation token: the handle is published as soon
\* as it is constructed, dispose() is the synchronous one of the older
\* library declaration, and the run consults nothing after its await. The
\* `aborted` field of a run stays FALSE (there is no signal); `abortedAt`
\* records where the run was when the cleanup of its effect ran.
legacyDispose(v, h) ==
  [use(v, h) EXCEPT !.sess[h].disposeCalls = @ + 1]

\* if (viewerRef.current) { try { dispose() } catch {} ; viewerRef.current = null }
legacyCleanup(v) ==
  LET torn == [v EXCEPT !.sess[v.cur].abortedAt = position(v, v.cur),
                        !.cleanupLog = <<>>]
  IN [(IF torn.viewerRef # 0
         THEN [legacyDispose(torn, torn.viewerRef) EXCEPT
                 !.viewerRef = 0, !.cleanupLog = <<"dispose">>]
         ELSE torn) EXCEPT !.cur = 0]

legacyRunCleanup(v) ==
  IF v.cur = 0 THEN v ELSE legacyCleanup(v)

\* The catch block of the legacy initViewer: it reports, whatever happened
\* to the component meanwhile, and disposes nothing.
legacyCatchBlock(v, s, msg, onError) ==
  LET reported == callOnError([v EXCEPT !.sess[s].failed = TRUE,
                                        !.error = msg, !.isLoading = FALSE], s)
  IN [reported EXCEPT !.sess[s].unhandled = (onError = "throws"),
                      !.sess[s].pc = "done"]

\* The legacy initViewer up to its await.
legacyInitViewer(v, s, ctor, onError) ==
  LET reset == [v EXCEPT !.isLoading = TRUE, !.error = NoError,
                         !.loadProgress = 0,
                         !.sess[s].ctorCalls = @ + 1]
      built == [step(reset, s, "construct") EXCEPT
                  !.sess[s].constructed = TRUE, !.viewerRef = s]
  IN IF ctor = "throws"
       THEN legacyCatchBlock(reset, s, "failed", onError)
       ELSE [step(built, s, "addSplatScenes") EXCEPT
               !.sess[s].fetches = Append(@, built.sess[s].models.items),
               !.sess[s].pc = "loading"]

legacyUseEffectBody(v, m, ctor, onError, t) ==
  IF effectReturnsEarly(m)
    THEN [v EXCEPT !.cur = 0]
    ELSE LET s == v.nsess + 1
             opened == [v EXCEPT !.nsess = s, !.cur = s,
                                 !.sess[s] = [NoSession EXCEPT
                                    !.models = m, !.startTime = t]]
         IN legacyInitViewer(opened, s, ctor, onError)

\* A run that goes on after the await only while its handle is the
\* published one.
proceedsIfPublished(v, s) ==
  v.viewerRef = s

\* Between the await of addSplatScenes and viewer.start() the legacy run
\* consults nothing.
legacyProceeds(v, s) ==
  TRUE

\* The legacy initViewer after addSplatScenes resolved.
legacyAfterLoad(v, s, t, count, onLoad, start, onError) ==
  IF ~legacyProceeds(v, s)
    THEN [v EXCEPT !.sess[s].pc = "done"]
    ELSE LET shown == [step(v, s, "stats") EXCEPT
                         !.stats = [fps |-> 0, splatCount |-> count,
                                    loadTime |-> t - v.sess[s].startTime],
                         !.isLoading = FALSE]
             told == [step(shown, s, "onLoad") EXCEPT !.sess[s].onLoadCalls = @ + 1]
             back == IF onLoad = "unmounts"
                       THEN [legacyRunCleanup(told) EXCEPT !.mounted = FALSE,
                                                           !.lastRender = "unmount"]
                       ELSE told
             called == [step(use(back, s), s, "start") EXCEPT
                          !.sess[s].startCalls = @ + 1]
         IN IF onLoad = "throws"
              THEN legacyCatchBlock(told, s, "failed", onError)
              ELSE IF start = "throws"
                THEN legacyCatchBlock(called, s, "failed", onError)
                ELSE [step(called, s, "requestAnimationFrame") EXCEPT
                        !.sess[s].started = TRUE, !.sess[s].raf = TRUE,
                        !.sess[s].pc = "done"]

LegacyMount(m, ctor, onError) ==
  /\ ~mounted
  /\ Len(m.items) > 0 => nsess < MaxSessions
  /\ LET fresh == [View EXCEPT !.mounted = TRUE, !.viewerRef = 0,
                                !.isLoading = TRUE, !.loadProgress = 0,
                                !.stats = NoStats, !.error = NoError,
                                !.cur = 0, !.lastRender = "mount"]
     IN Commit(legacyUseEffectBody(fresh, m, ctor, onError, now))
  /\ models' = m
  /\ frameCountRef' = 0
  /\ lastTimeRef' = 0
  /\ samplerLog' = NoSample
  /\ UNCHANGED now

LegacyRerender(m, cbNew, ctor, onError) ==
  /\ mounted
  /\ LET rendered == [View EXCEPT !.lastRender =
                        IF sameProps(m, cbNew) THEN "same" ELSE "changed"]
     IN IF depsChanged(m, cbNew)
          THEN /\ Len(m.items) > 0 => nsess < MaxSessions
               /\ Commit(legacyUseEffectBody(legacyRunCleanup(rendered), m, ctor,
                                             onError, now))
          ELSE Commit(rendered)
  /\ models' = m
  /\ UNCHANGED <<frameCountRef, lastTimeRef, samplerLog, now>>

LegacyUnmount ==
  /\ mounted
  /\ Commit([legacyRunCleanup(View) EXCEPT !.mounted = FALSE,
                                           !.lastRender = "unmount"])
  /\ UNCHANGED <<models, frameCountRef, lastTimeRef, samplerLog, now>>

LegacyLoadResolve(s, count, onLoad, start, onError) ==
  /\ sess[s].pc = "loading"
  /\ Commit(legacyAfterLoad([View EXCEPT !.sess[s].settled = "resolved"],
                            s, now, count, onLoad, start, onError))
  /\ UNCHANGED <<models, frameCountRef, lastTimeRef, samplerLog, now>>

LegacyLoadReject(s, onError) ==
  /\ sess[s].pc = "loading"
  /\ Commit(legacyCatchBlock([View EXCEPT !.sess[s].settled = "rejected"],
                             s, "failed", onError))
  /\ UNCHANGED <<models, frameCountRef, lastTimeRef, samplerLog, now>>

\* The legacy progress callback: no guard.
LegacyProgress(s, p) ==
  /\ sess[s].pc = "loading"
  /\ Commit([View EXCEPT !.loadProgress = RoundTenths(p)])
  /\ UNCHANGED <<models, frameCountRef, lastTimeRef, samplerLog, now>>

\* The legacy animate: if (viewerRef.current) { updateFPS(); rAF(animate) }
LegacyAnimate(s) ==
  /\ sess[s].raf
  /\ IF viewerRef # 0
       THEN LET u == updateFPS(frameCountRef, lastTimeRef, now)
            IN /\ frameCountRef < MaxFrames
               /\ frameCountRef' = u.count
               /\ lastTimeRef' = u.last
               /\ UNCHANGED samplerLog
               /\ Commit([View EXCEPT !.stats =
                            IF u.fps >= 0 /\ @ # NoStats
                              THEN [@ EXCEPT !.fps = u.fps] ELSE @])
       ELSE /\ Commit([View EXCEPT !.sess[s].raf = FALSE])
            /\ UNCHANGED <<frameCountRef, lastTimeRef, samplerLog>>
  /\ UNCHANGED <<models, now>>

\* The legacy handleResize: camera and renderer of viewerRef.current.
LegacyHandleResize ==
  /\ mounted
  /\ Commit(IF viewerRef # 0
              THEN [use(View, viewerRef) EXCEPT !.sess[viewerRef].resized = TRUE]
              ELSE View)
  /\ UNCHANGED <<models, frameCountRef, lastTimeRef, samplerLog, now>>

\* The legacy variant driven by an arbitrary parent and an arbitrary
\* renderer, with an onError that returns.
LegacyNext ==
  \/ \E m \in ParentLists, ctor \in CtorOutcomes :
       LegacyMount(m, ctor, "returns") /\ UNCHANGED appVars
  \/ \E m \in ParentLists, cbNew \in BOOLEAN, ctor \in CtorOutcomes :
       LegacyRerender(m, cbNew, ctor, "returns") /\ UNCHANGED appVars
  \/ LegacyUnmount /\ UNCHANGED appVars
  \/ \E s \in Sessions, count \in SplatCounts, onLoad \in OnLoadOutcomes,
        start \in StartOutcomes :
       LegacyLoadResolve(s, count, onLoad, start, "returns") /\ UNCHANGED appVars
  \/ \E s \in Sessions : LegacyLoadReject(s, "returns") /\ UNCHANGED appVars
  \/ \E s \in Sessions, p \in ProgressTenths :
       LegacyProgress(s, p) /\ UNCHANGED appVars
  \/ \E s \in Sessions : LegacyAnimate(s) /\ UNCHANGED appVars
  \/ LegacyHandleResize /\ UNCHANGED appVars

LegacySpec == Init /\ [][LegacyNext]_vars

\* ------------------------------------------------------------ App shell
\* models={selectedModel ? [selectedModel] : []}: an array literal in the
\* render, a new array every time.
inlineModelArray(sel) ==
  [ref |-> nextRef,
   items |-> IF sel = 0 THEN <<>> ELSE <<AVAILABLE_MODELS[sel]>>]

\* modelArray = useMemo(() => selectedModel ? [selectedModel] : [],
\* [selectedModel]) when App renders with selectedModel = sel: a new array
\* when the dependency differs from the one of the previous render, the
\* memoized array otherwise.
useMemoModelArray(sel) ==
  IF memoDep # sel
    THEN [ref |-> nextRef,
          items |-> IF sel = 0 THEN <<>> ELSE <<AVAILABLE_MODELS[sel]>>]
    ELSE modelArray

\* A shell whose handleLoad / handleError never run.
hostNeverCalled ==
  FALSE

\* handleLoad and handleError both end in setIsLoading(false); the viewer
\* invoked one of them in this step iff a call counter moved.
hostCalled ==
  \E s \in Sessions : \/ sess'[s].onLoadCalls # sess[s].onLoadCalls
                      \/ sess'[s].onErrorCalls # sess[s].onErrorCalls

\* App state after a step of the viewer in which React rendered nothing:
\* setIsLoading(false) of handleLoad / handleError schedules a render when
\* it changes the state.
handleLoadOrError ==
  /\ appIsLoading' = (appIsLoading /\ ~hostCalled)
  /\ renderPending' = (renderPending \/ (appIsLoading /\ hostCalled))
  /\ UNCHANGED <<selectedModel, modelArray, memoDep, nextRef, selectorDisabled,
                 appRendered, repicked>>

\* A selector that is never disabled.
neverDisabled(loading) ==
  FALSE

\* The selector's disabled prop: disabled={isLoading}.
disabled(loading) ==
  loading

\* App renders with state (sel, loading) and React commits: the memo, the
\* selector's disabled prop, and the viewer element (mounted or re-rendered
\* with the stable handleLoad / handleError, which return) when a model is
\* selected.
AppCommit(sel, loading, ctor) ==
  LET arr == useMemoModelArray(sel)
  IN /\ modelArray' = arr
     /\ nextRef' = IF arr.ref = nextRef THEN nextRef + 1 ELSE nextRef
     /\ memoDep' = sel
     /\ selectedModel' = sel
     /\ selectorDisabled' = disabled(loading)
     /\ appRendered' = TRUE
     /\ IF sel = 0
          THEN UNCHANGED <<viewerVars, now>>
          ELSE IF mounted THEN Rerender(arr, FALSE, ctor, "returns")
                          ELSE Mount(arr, ctor, "returns")
     /\ appIsLoading' = (loading /\ ~hostCalled)
     /\ renderPending' = (loading /\ hostCalled)

\* React renders App after a scheduled state update (or for the first time).
AppRender(ctor) ==
  /\ renderPending
  /\ AppCommit(selectedModel, appIsLoading, ctor)
  /\ UNCHANGED repicked

\* The user picks catalog entry m in the enabled selector: the <select>,
\* whose value is the selected model's name, fires onChange for an option
\* other than the current one; ModelSelector finds the entry and calls
\* handleSelectModel; the update of a discrete event is rendered before any
\* other event.
handleSelectModel(m, ctor) ==
  /\ appRendered
  /\ ~selectorDisabled
  /\ m # selectedModel
  /\ AppCommit(m, TRUE, ctor)
  /\ repicked' = FALSE

\* The user opens the enabled selector and picks the option that is already
\* selected: the value of the <select> does not change, no change event
\* fires, ModelSelector's onChange and handleSelectModel are not called.
pickSelectedOption ==
  /\ appRendered
  /\ ~selectorDisabled
  /\ selectedModel # 0
  /\ repicked' = TRUE
  /\ UNCHANGED <<viewerVars, now, selectedModel, appIsLoading, modelArray,
                 memoDep, nextRef, renderPending, selectorDisabled, appRendered>>

\* getInitialModel() of the auto-select variant.
getInitialModel ==
  IF Len(AVAILABLE_MODELS) > 0 THEN 1 ELSE 0

\* App before its first render: either variant of the shell.
AppInit ==
  /\ mounted = FALSE
  /\ models = NoModels
  /\ viewerRef = 0
  /\ isLoading = TRUE
  /\ loadProgress = 0
  /\ stats = NoStats
  /\ error = NoError
  /\ frameCountRef = 0
  /\ lastTimeRef = 0
  /\ samplerLog = NoSample
  /\ sess = [s \in Sessions |-> NoSession]
  /\ nsess = 0
  /\ cur = 0
  /\ now = 400
  /\ cleanupLog = <<>>
  /\ lastRender = "none"
  /\ \/ selectedModel = 0 /\ appIsLoading = FALSE
     \/ selectedModel = getInitialModel /\ appIsLoading = TRUE
  /\ modelArray = NoModels
  /\ memoDep = -1
  /\ nextRef = 1
  /\ renderPending = TRUE
  /\ selectorDisabled = FALSE
  /\ appRendered = FALSE
  /\ repicked = FALSE

\* The shell and the viewer together, with an arbitrary renderer.
AppNext ==
  \/ \E ctor \in CtorOutcomes : AppRender(ctor)
  \/ \E m \in 1..Len(AVAILABLE_MODELS), ctor \in CtorOutcomes :
       handleSelectModel(m, ctor)
  \/ \E s \in Sessions, count \in SplatCounts, start \in StartOutcomes :
       LoadResolve(s, count, "returns", start, "returns") /\ handleLoadOrError
  \/ \E s \in Sessions : LoadReject(s, "returns") /\ handleLoadOrError
  \/ \E s \in Sessions, p \in ProgressTenths : Progress(s, p) /\ UNCHANGED appVars
  \/ \E s \in Sessions, outcome \in DisposeOutcomes :
       DisposeSettle(s, outcome) /\ UNCHANGED appVars
  \/ \E s \in Sessions : Animate(s) /\ UNCHANGED appVars
  \/ handleResize /\ UNCHANGED appVars
  \/ pickSelectedOption

AppSpec == AppInit /\ [][AppNext]_vars

\* ======================================================== the claims
Opened == 1..nsess

\* A step in which the parent re-renders the mounted viewer with the same
\* models reference (whatever the callback props).
SameModelsRerender ==
  \E m \in ParentLists, cbNew \in BOOLEAN, ctor \in CtorOutcomes,
     onError \in OnErrorOutcomes :
    m.ref = models.ref /\ Rerender(m, cbNew, ctor, onError)

\* A step in which the parent re-renders the mounted viewer with the same
\* models reference and the same callback function objects.
SamePropsRerender ==
  \E m \in ParentLists, ctor \in CtorOutcomes, onError \in OnErrorOutcomes :
    m.ref = models.ref /\ Rerender(m, FALSE, ctor, onError)

\* Every session that is not cancelled is the one of the current effect.
OneOpenSession ==
  /\ \A s \in Opened : ~sess[s].aborted => (mounted /\ s = cur)
  /\ (mounted /\ Len(models.items) > 0) =>
       /\ cur \in Opened
       /\ ~sess[cur].aborted
       /\ sess[cur].models = models
       /\ sess[cur].ctorCalls = 1
       /\ Len(sess[cur].fetches) = IF sess[cur].constructed THEN 1 ELSE 0
       /\ \A i \in 1..Len(sess[cur].fetches) : sess[cur].fetches[i] = models.items

\* C1 as stated: while the mounted viewer is given the same models
\* reference, re-renders open no second load sequence (the renderer is
\* constructed once and addSplatScenes called once for that reference).
C1_Original ==
  [][SameModelsRerender => (nsess' = nsess /\ sess' = sess)]_vars

\* C1, the part the code keeps: for a non-empty models list, while the viewer
\* stays mounted with the same models reference and the same callback
\* function objects, exactly one load session is open for it across any
\* number of re-renders: its constructor was invoked once, addSplatScenes
\* once if the construction succeeded, and a re-render neither opens another
\* session nor touches it.
C1_SingleLoad ==
  /\ []OneOpenSession
  /\ [][SamePropsRerender => (nsess' = nsess /\ cur' = cur /\ sess' = sess)]_vars

\* C1 witness: the viewer was re-rendered with the same props and its one
\* session ran to completion and is live.
C1_Witness ==
  /\ mounted /\ lastRender = "same" /\ nsess = 1 /\ cur = 1
  /\ sess[1].pc = "done" /\ sess[1].onLoadCalls = 1 /\ viewerRef = 1
  /\ Len(sess[1].fetches) = 1

\* C2 as stated: a re-render with the same models reference cancels no
\* session, disposes no handle and constructs none.
C2_Original ==
  [][SameModelsRerender =>
       /\ viewerRef' = viewerRef
       /\ \A s \in Sessions : /\ sess'[s].aborted = sess[s].aborted
                               /\ sess'[s].disposeCalls = sess[s].disposeCalls
                               /\ sess'[s].ctorCalls = sess[s].ctorCalls]_vars

\* C2, the part the code keeps: a re-render with the same models reference and the same
\* onLoad / onProgress / onError function objects cancels no session,
\* disposes no handle and constructs none.
C2_NoRedundantReload ==
  [][SamePropsRerender =>
       /\ viewerRef' = viewerRef
       /\ \A s \in Sessions : /\ sess'[s].aborted = sess[s].aborted
                               /\ sess'[s].disposeCalls = sess[s].disposeCalls
                               /\ sess'[s].ctorCalls = sess[s].ctorCalls]_vars

\* C2 witness: the viewer was re-rendered with the same props while its
\* session was loading, and the session is still loading and uncancelled.
C2_Witness ==
  /\ mounted /\ lastRender = "same" /\ cur # 0
  /\ sess[cur].pc = "loading" /\ ~sess[cur].aborted
  /\ sess[cur].disposeCalls = 0

\* C3: in the App shell the viewer is handed modelArray; a step that leaves
\* selectedModel alone leaves the array reference alone (so does the render
\* after handleLoad / handleError), and a step that changes selectedModel
\* hands over an array reference never used before.
C3_StableModelArray ==
  /\ [](mounted => models = modelArray)
  /\ [][appRendered =>
          IF selectedModel' = selectedModel
            THEN modelArray' = modelArray
            ELSE modelArray'.ref = nextRef /\ nextRef' > nextRef]_vars

\* C3 witness: onLoad cleared App's loading flag, App rendered again, and
\* the live viewer still holds the array its session was opened with.
C3_Witness ==
  /\ mounted /\ cur # 0 /\ viewerRef = cur
  /\ sess[cur].onLoadCalls = 1
  /\ ~appIsLoading /\ ~renderPending /\ ~selectorDisabled
  /\ lastRender = "same"
  /\ models.ref = sess[cur].models.ref

\* C4: in shell + viewer the session of the current selection fetches the
\* selected model's URL, once; when its load resolved, onLoad was called
\* exactly once and stats are populated; and no step that leaves the
\* selection alone constructs or fetches again.
C4_ScenarioA ==
  /\ [](mounted =>
          /\ selectedModel # 0
          /\ cur = nsess /\ cur # 0
          /\ sess[cur].models.items = <<AVAILABLE_MODELS[selectedModel]>>
          /\ sess[cur].ctorCalls = 1
          /\ sess[cur].constructed =>
                sess[cur].fetches = <<(<<AVAILABLE_MODELS[selectedModel]>>)>>
          /\ sess[cur].settled = "resolved" =>
                /\ sess[cur].onLoadCalls = 1
                /\ stats # NoStats /\ stats.splatCount \in SplatCounts
                /\ stats.loadTime >= 0)
  /\ [][(mounted /\ selectedModel' = selectedModel) =>
          /\ nsess' = nsess
          /\ \A s \in Sessions : /\ sess'[s].ctorCalls = sess[s].ctorCalls
                                  /\ sess'[s].fetches = sess[s].fetches]_vars

\* C4 witness: the user selected the second catalog entry after the first
\* one; its session fetched once, called onLoad once and is live, and App
\* has rendered the cleared loading flag.
C4_Witness ==
  /\ mounted /\ selectedModel = 2 /\ nsess = 2 /\ cur = 2 /\ viewerRef = 2
  /\ sess[2].fetches = <<(<<AVAILABLE_MODELS[2]>>)>>
  /\ sess[2].onLoadCalls = 1 /\ stats # NoStats
  /\ ~appIsLoading /\ ~renderPending /\ lastRender = "same"

\* C5: dispose() is never called twice on a handle, and a session that
\* constructed a handle, was torn down while its load was in flight, between
\* the load and the start, or while live, and has terminated (or is awaiting
\* its own disposal) had dispose() called on that handle exactly once.
C5_DisposedOnce ==
  \A s \in Opened :
    /\ sess[s].disposeCalls <= 1
    /\ (sess[s].constructed
          /\ sess[s].abortedAt \in {"inflight", "beforestart", "live"}
          /\ sess[s].pc \in {"disposing", "done"}) => sess[s].disposeCalls = 1

\* C5 witness: the first session was torn down while its load was in
\* flight and the second one after it went live; both have terminated.
C5_Witness ==
  /\ nsess = 2
  /\ sess[1].abortedAt = "inflight" /\ sess[1].pc = "done"
  /\ sess[1].settled = "resolved"
  /\ sess[1].onLoadCalls = 0 /\ sess[1].disposeCalls = 1
  /\ sess[2].abortedAt = "live" /\ sess[2].pc = "done" /\ sess[2].started
  /\ sess[2].disposeCalls = 1

\* C6: no session ever invoked onLoad or onError with its abort signal set;
\* in particular a step in which a cancelled session resumes (its load
\* resolves or rejects) invokes neither callback and sets no error.
C6_NoCallbackAfterCancel ==
  /\ [](\A s \in Opened : ~sess[s].cbAfterAbort)
  /\ [][\A s \in Sessions :
          (sess[s].aborted /\ sess[s].pc = "loading") =>
            /\ sess'[s].onLoadCalls = sess[s].onLoadCalls
            /\ sess'[s].onErrorCalls = sess[s].onErrorCalls
            /\ (sess'[s].pc # "loading" => error' = error)]_vars

\* C6 witness: a session was cancelled in flight, its load then rejected,
\* and neither callback was invoked.
C6_Witness ==
  \E s \in Opened :
    /\ sess[s].aborted /\ sess[s].settled = "rejected" /\ sess[s].failed
    /\ sess[s].onErrorCalls = 0 /\ sess[s].onLoadCalls = 0

\* A handle is live: started and dispose() not yet called on it.
Live(s) == sess[s].started /\ sess[s].disposeCalls = 0

\* C7: at most one handle is live, it is the published one, and every
\* step that starts a handle finds no other handle live.
C7_OneLiveHandle ==
  /\ [](\A s, t \in Opened : (Live(s) /\ Live(t)) => s = t)
  /\ [](\A s \in Opened : Live(s) => viewerRef = s)
  /\ [][\A s \in Sessions :
          (sess'[s].startCalls # sess[s].startCalls) =>
            \A t \in Sessions \ {s} : ~Live(t)]_vars

\* C7 witness: the first handle was live and has been disposed; the second
\* one is live now.
C7_Witness ==
  /\ nsess = 2
  /\ sess[1].started /\ sess[1].disposeCalls = 1
  /\ Live(2) /\ viewerRef = 2

\* A step that tears the current session down.
Teardown == cur # 0 /\ cur' # cur

\* C8: a teardown sets the session's token and, if a handle is live,
\* afterwards calls dispose() on it; with no live handle it only sets the
\* token.
C8_AbortThenDispose ==
  /\ [](cleanupLog \in {<<>>, <<"abort">>, <<"abort", "dispose">>})
  /\ [][Teardown =>
          /\ sess'[cur].aborted
          /\ IF viewerRef # 0
               THEN /\ cleanupLog' = <<"abort", "dispose">>
                    /\ sess'[viewerRef].disposeCalls = sess[viewerRef].disposeCalls + 1
                    /\ viewerRef' # viewerRef
               ELSE cleanupLog' = <<"abort">>]_vars

\* C8 witness: a teardown found a live handle and disposed it after the
\* abort.
C8_Witness ==
  /\ cleanupLog = <<"abort", "dispose">>
  /\ \E s \in Opened : sess[s].started /\ sess[s].aborted /\ sess[s].disposeCalls = 1

\* The construction or the load of session s failed.
LoadFailed(s) ==
  \/ sess[s].ctorCalls = 1 /\ ~sess[s].constructed
  \/ sess[s].settled = "rejected"

C10_FailedHandleDisposed ==
  \A s \in Opened :
    (sess[s].failed /\ sess[s].constructed) =>
      /\ sess[s].disposeCalls = 1
      /\ ~sess[s].started
      /\ viewerRef # s
      /\ ~sess[s].raf

\* C10 witness: an uncancelled session's load rejected after construction,
\* onError was invoked and threw, and the run ended with the handle never
\* disposed.
C10_Witness ==
  \E s \in Opened :
    /\ sess[s].failed /\ sess[s].constructed /\ sess[s].settled = "rejected"
    /\ sess[s].onErrorCalls = 1 /\ sess[s].unhandled
    /\ sess[s].pc = "done" /\ sess[s].disposeCalls = 0

\* C11: no method is ever called on a handle on which dispose() was called
\* before: not start(), not the camera / renderer / forceRenderNextFrame
\* calls of handleResize, not a second dispose(); and the handle that
\* handleResize would use is never a disposed one.
C11_NoUseAfterDispose ==
  /\ \A s \in Opened : ~sess[s].usedAfterDispose /\ sess[s].disposeCalls <= 1
  /\ viewerRef # 0 => sess[viewerRef].disposeCalls = 0

\* C11 witness: the first handle was resized while live and then disposed by
\* a teardown; the second handle is live and was resized too.
C11_Witness ==
  /\ nsess = 2 /\ mounted
  /\ sess[1].resized /\ sess[1].started /\ sess[1].disposeCalls = 1
  /\ sess[2].resized /\ viewerRef = 2 /\ sess[2].disposeCalls = 0

\* Session s was superseded in flight: its signal was set while it awaited
\* addSplatScenes, and the next session was opened for another models
\* reference.
SupersededInFlight(s) ==
  /\ s + 1 \in Opened
  /\ sess[s].abortedAt = "inflight"
  /\ sess[s + 1].models.ref # sess[s].models.ref

\* C12: when M1's session is superseded in flight by M2's, M1's session
\* stays cancelled, invokes neither onLoad nor onError, is never started or
\* published, and has its handle disposed exactly once as soon as its load
\* has settled; addSplatScenes was called once with M1 and (M2's handle
\* constructed) once with M2; and whenever a handle is live it is the one of
\* the current session, loaded with the current models - in whichever order
\* the two loads settle.
C12_ScenarioB ==
  /\ \A s \in Opened : SupersededInFlight(s) =>
        /\ sess[s].aborted
        /\ sess[s].onLoadCalls = 0 /\ sess[s].onErrorCalls = 0
        /\ sess[s].startCalls = 0 /\ viewerRef # s
        /\ sess[s].fetches = <<sess[s].models.items>>
        /\ sess[s].settled # "none" => sess[s].disposeCalls = 1
        /\ sess[s].settled = "none" => sess[s].disposeCalls = 0
        /\ sess[s + 1].constructed =>
              sess[s + 1].fetches = <<sess[s + 1].models.items>>
  /\ viewerRef # 0 =>
        /\ viewerRef = cur /\ sess[cur].models = models
        /\ sess[cur].fetches = <<models.items>>

\* C12 witness: M2's load settled first and its handle went live while M1's
\* load was still in flight; M1's load has resolved since and its handle
\* was disposed; the live handle is M2's.
C12_Witness ==
  /\ nsess = 2 /\ SupersededInFlight(1)
  /\ sess[1].models.items = <<AVAILABLE_MODELS[1]>>
  /\ sess[2].models.items = <<AVAILABLE_MODELS[2]>>
  /\ sess[1].settled = "resolved" /\ sess[1].settledWhileLive
  /\ sess[1].pc = "done" /\ sess[1].disposeCalls = 1
  /\ viewerRef = 2 /\ sess[2].started /\ sess[2].resized
  /\ sess[2].onLoadCalls = 1

\* C13: a session torn down while its load was in flight never requested an
\* animation frame, was never started, threw nothing to the host, and once
\* its load has settled dispose() was called on its handle exactly once;
\* and while the component is unmounted no step touches its state or
\* viewerRef.current.
C13_ScenarioC ==
  /\ [](\A s \in Opened : sess[s].abortedAt = "inflight" =>
          /\ ~sess[s].raf /\ sess[s].startCalls = 0 /\ ~sess[s].unhandled
          /\ sess[s].settled # "none" =>
                /\ sess[s].pc \in {"disposing", "done"}
                /\ sess[s].disposeCalls = 1)
  /\ [](~mounted => cur = 0 /\ viewerRef = 0)
  /\ [][(~mounted /\ ~mounted') =>
          UNCHANGED <<isLoading, loadProgress, stats, error, viewerRef,
                      frameCountRef, lastTimeRef>>]_vars

\* C13 witness: the component was unmounted while its only session awaited
\* the load; the load has resolved since, the run disposed the handle and
\* returned.
C13_Witness ==
  /\ ~mounted /\ lastRender = "unmount" /\ nsess = 1
  /\ sess[1].abortedAt = "inflight" /\ sess[1].settled = "resolved"
  /\ sess[1].pc = "done" /\ sess[1].disposeCalls = 1 /\ isLoading

\* A step in which the parent re-renders the mounted viewer with another
\* array that holds the same descriptors as the current one.
FreshEqualRerender ==
  \E m \in ParentLists, cbNew \in BOOLEAN, ctor \in CtorOutcomes,
     onError \in OnErrorOutcomes :
    /\ m.ref # models.ref /\ m.items = models.items /\ Len(m.items) > 0
    /\ Rerender(m, cbNew, ctor, onError)

\* C14: a re-render with a freshly allocated list holding an equal
\* descriptor cancels the active session, disposes the live handle (if
\* any), opens a new session whose constructor is invoked once and which,
\* the handle constructed, fetches the same model again.
C14_ScenarioD ==
  [][FreshEqualRerender =>
       /\ cur # 0 /\ ~sess[cur].aborted /\ sess'[cur].aborted
       /\ viewerRef # 0 =>
             /\ sess'[viewerRef].disposeCalls = sess[viewerRef].disposeCalls + 1
             /\ viewerRef' # viewerRef
       /\ nsess' = nsess + 1 /\ cur' = nsess'
       /\ sess'[cur'].ctorCalls = 1
       /\ sess'[cur'].models.items = sess[cur].models.items
       /\ sess'[cur'].constructed =>
             /\ sess'[cur'].fetches = <<models.items>>
             /\ sess'[cur'].pc = "loading"]_vars

\* C14 witness: the first session was live with one array, the viewer was
\* re-rendered with another array holding the same descriptor, the first
\* handle was disposed and the second session is fetching the model again.
C14_Witness ==
  /\ mounted /\ lastRender = "changed" /\ nsess = 2 /\ cur = 2
  /\ sess[1].models.ref # sess[2].models.ref
  /\ sess[1].models.items = sess[2].models.items
  /\ sess[1].abortedAt = "live" /\ sess[1].disposeCalls = 1
  /\ sess[2].pc = "loading" /\ sess[2].fetches = <<sess[1].models.items>>
  /\ viewerRef = 0

\* The disposal of handle s is rejected in this step.
DisposeRejects(s) ==
  sess[s].disposeResult = "pending" /\ sess'[s].disposeResult = "rejected"

\* Some disposal has failed or is still pending.
DisposalTrouble ==
  \E t \in Opened : sess[t].disposeResult \in {"pending", "rejected"}

\* C15: a step in which a disposal is rejected - the one fired by the
\* teardown, the one awaited at a cancellation checkpoint, or the one awaited
\* after a failed initialization - invokes no callback, leaves the error and
\* loading state alone and rejects no run; and with disposals failed or
\* pending a re-initialization still opens a session, and that session's
\* load still ends with its handle started and published.
C15_DisposeErrorSwallowed ==
  /\ [][\A s \in Sessions : DisposeRejects(s) =>
          /\ error' = error /\ isLoading' = isLoading
          /\ viewerRef' = viewerRef /\ cur' = cur
          /\ \A t \in Sessions :
                /\ sess'[t].onErrorCalls = sess[t].onErrorCalls
                /\ sess'[t].onLoadCalls = sess[t].onLoadCalls
                /\ sess'[t].unhandled = sess[t].unhandled
                /\ sess'[t].failed = sess[t].failed]_vars
  /\ [][(DisposalTrouble /\ \E m \in ParentLists, cbNew \in BOOLEAN,
                               onError \in OnErrorOutcomes :
             /\ depsChanged(m, cbNew) /\ Len(m.items) > 0
             /\ Rerender(m, cbNew, "ok", onError)) =>
          /\ nsess' = nsess + 1 /\ cur' = nsess'
          /\ sess'[cur'].pc = "loading" /\ ~sess'[cur'].aborted]_vars
  /\ [][\A s \in Sessions :
          (DisposalTrouble /\ ~sess[s].aborted /\ \E count \in SplatCounts :
             LoadResolve(s, count, "returns", "ok", "returns")) =>
          /\ viewerRef' = s /\ sess'[s].started
          /\ error' = NoError /\ ~isLoading']_vars

\* C15 witness: the first handle was live, the teardown's dispose() on it
\* was rejected, and the session opened by the re-initialization is live
\* with no error shown or reported.
C15_Witness ==
  /\ nsess = 2 /\ mounted
  /\ sess[1].abortedAt = "live" /\ sess[1].disposeResult = "rejected"
  /\ viewerRef = 2 /\ sess[2].started /\ sess[2].onLoadCalls = 1
  /\ error = NoError /\ ~isLoading
  /\ \A s \in Opened : sess[s].onErrorCalls = 0

\* The progress callback of session s passes a value on in this step.
ProgressReported(s) ==
  /\ sess[s].pc = "loading" /\ sess'[s].pc = "loading" /\ ~sess[s].aborted
  /\ \E p \in ProgressTenths : Progress(s, p)

\* C16 as stated: within a session the values passed to onProgress (shown
\* rounded as loadProgress) never decrease, onLoad fires only after 100
\* was passed, and a session cancelled before its load settled never fires
\* onLoad.
C16_ProgressMonotone ==
  /\ [][\A s \in Sessions : ProgressReported(s) => loadProgress' >= loadProgress]_vars
  /\ [][\A s \in Sessions :
          sess'[s].onLoadCalls > sess[s].onLoadCalls => loadProgress = 100]_vars
  /\ [](\A s \in Opened : sess[s].abortedAt = "inflight" => sess[s].onLoadCalls = 0)

\* C16 witness: the load of the live session resolved and onLoad fired while
\* the last value the renderer had reported, and the controller passed on,
\* was 49.5.
C16_Witness ==
  /\ cur # 0 /\ viewerRef = cur /\ sess[cur].onLoadCalls = 1
  /\ loadProgress = 50 /\ ~isLoading

\* C17: an animate callback of a session that is cancelled, or whose handle
\* is not the live one, changes neither counter nor sample point nor stats
\* and requests no further frame; a sampler that stopped never restarts; and
\* a pending frame callback of an uncancelled session belongs to the live
\* handle.
C17_SamplerStops ==
  /\ [][\A s \in Sessions :
          (Animate(s) /\ (sess[s].aborted \/ viewerRef # s)) =>
            /\ frameCountRef' = frameCountRef /\ lastTimeRef' = lastTimeRef
            /\ stats' = stats /\ ~sess'[s].raf]_vars
  /\ [][\A s \in Sessions :
          (sess[s].started /\ ~sess[s].raf) => ~sess'[s].raf]_vars
  /\ [](\A s \in Opened : (sess[s].raf /\ ~sess[s].aborted) => viewerRef = s)

\* C17 witness: the first session's sampler published a rate, the session
\* was torn down, its pending frame callback fired and requested no other;
\* the published rate is still the one from before the teardown.
C17_Witness ==
  /\ nsess = 1 /\ sess[1].started /\ sess[1].aborted /\ ~sess[1].raf
  /\ stats # NoStats /\ stats.fps > 0
  /\ frameCountRef = 0 /\ lastTimeRef = now /\ now > 400

\* C18: at most one session has its signal unset, it is the session of the
\* current effect run of the mounted component, and every session was
\* opened after the signals of all earlier sessions had been set.
C18_OneActiveSession ==
  /\ \A s, t \in Opened : (~sess[s].aborted /\ ~sess[t].aborted) => s = t
  /\ \A s \in Opened : ~sess[s].aborted => (mounted /\ cur = s /\ s = nsess)
  /\ \A s \in Opened : ~sess[s].openedWhileActive

\* C18 witness: the second session was opened while the first one's load
\* was still in flight; the first one is cancelled, the second one active.
C18_Witness ==
  /\ nsess = 2 /\ mounted /\ lastRender = "changed"
  /\ sess[1].pc = "loading" /\ sess[1].aborted /\ sess[1].abortedAt = "inflight"
  /\ sess[2].pc = "loading" /\ ~sess[2].aborted

\* C19 as stated: after the current selection's session failed, picking
\* another model in the selector opens a session for it, and so does picking
\* the failed model again: once the user has picked it again the current
\* session is no longer the failed one.
C19_RetryBySelecting ==
  /\ [][(cur # 0 /\ sess[cur].failed /\ selectedModel' # selectedModel) =>
          /\ nsess' = nsess + 1 /\ cur' = nsess'
          /\ sess'[cur'].models.items = <<AVAILABLE_MODELS[selectedModel']>>
          /\ sess'[cur'].ctorCalls = 1]_vars
  /\ [](repicked => ~(cur # 0 /\ sess[cur].failed))

\* C19 witness: the load of the selected model failed, handleError cleared
\* the loading flag, the selector is enabled again, the user picked the same
\* model again, and the failed session is still the only one.
C19_Witness ==
  /\ repicked /\ nsess = 1 /\ cur = 1 /\ sess[1].failed
  /\ sess[1].settled = "rejected" /\ sess[1].onErrorCalls = 1
  /\ ~appIsLoading /\ ~selectorDisabled /\ ~renderPending /\ error # NoError

\* C20 as stated: no run of initViewer ends with its promise rejected, and
\* a failure reaches the host through onError and nothing else: a failed
\* run has either reported once through onError, or was cancelled and
\* reported nothing.
C20_FailuresContained ==
  \A s \in Opened :
    /\ ~sess[s].unhandled
    /\ sess[s].failed => sess[s].onErrorCalls <= 1

\* C20 witness: the constructor threw in an uncancelled session, the catch
\* block called onError, onError threw, and the promise of initViewer was
\* rejected with nothing to handle it.
C20_Witness ==
  \E s \in Opened :
    /\ sess[s].ctorCalls = 1 /\ ~sess[s].constructed /\ sess[s].failed
    /\ sess[s].onErrorCalls = 1 /\ sess[s].unhandled /\ sess[s].pc = "done"

\* A step in which the effect runs, or is skipped for unchanged dependencies,
\* with an empty models list.
EmptyInitialization ==
  \E m \in ParentLists, cbNew \in BOOLEAN, ctor \in CtorOutcomes,
     onError \in OnErrorOutcomes :
    /\ Len(m.items) = 0
    /\ Mount(m, ctor, onError) \/ Rerender(m, cbNew, ctor, onError)

\* C21: an initialization or re-initialization with an empty models list
\* opens no session: no renderer is constructed, no fetch is issued, no
\* callback is invoked and no handle is published; and the container is
\* present whenever the effect runs, so the other half of the guard never
\* decides.
C21_EmptyOpensNothing ==
  /\ [][EmptyInitialization =>
          /\ nsess' = nsess /\ cur' = 0 /\ viewerRef' = 0
          /\ \A s \in Sessions :
                /\ sess'[s].ctorCalls = sess[s].ctorCalls
                /\ sess'[s].fetches = sess[s].fetches
                /\ sess'[s].onLoadCalls = sess[s].onLoadCalls
                /\ sess'[s].onErrorCalls = sess[s].onErrorCalls
                /\ sess'[s].startCalls = sess[s].startCalls]_vars
  /\ []((mounted /\ Len(models.items) = 0) => (cur = 0 /\ viewerRef = 0))
  /\ [](mounted => containerRef)

\* C21 witness: the viewer, live with one model, was re-rendered with an
\* empty list: the first session was torn down and no other was opened.
C21_Witness ==
  /\ mounted /\ Len(models.items) = 0 /\ lastRender = "changed"
  /\ nsess = 1 /\ cur = 0 /\ sess[1].abortedAt = "live"
  /\ sess[1].disposeCalls = 1 /\ viewerRef = 0

\* Session s is the second effect run of a StrictMode mount in which both
\* runs constructed their handle.
StrictRemount(s) ==
  /\ sess[s].remountOf # 0
  /\ sess[s].constructed /\ sess[sess[s].remountOf].constructed

statsPanelShown ==
  mounted /\ stats # NoStats /\ ~isLoading

\* C23 as stated: a step that tears down the live handle of a component
\* that stays mounted discards the stats, which until then held that
\* handle's item count, load duration and frame rate.
C23_StatsDiscarded ==
  [][(viewerRef # 0 /\ viewerRef' # viewerRef /\ mounted') =>
       stats' = NoStats]_vars

\* C23 witness: the first model was loaded and shown, the user selected
\* another model, the first handle was torn down, the second load failed:
\* the stats panel shows the first handle's figures next to the error.
C23_Witness ==
  /\ nsess = 2 /\ cur = 2 /\ viewerRef = 0
  /\ sess[1].abortedAt = "live" /\ sess[1].disposeCalls = 1
  /\ sess[2].settled = "rejected" /\ sess[2].onErrorCalls = 1
  /\ stats # NoStats /\ stats.splatCount \in SplatCounts
  /\ statsPanelShown /\ error # NoError

IsPrefix(a, b) ==
  Len(a) <= Len(b) /\ \A i \in 1..Len(a) : a[i] = b[i]

\* C24: the steps a session has taken are always an initial part of
\* construct, addSplatScenes, stats, onLoad, start, publish, first frame
\* request, in that order; start() is called at most once and only after
\* the load resolved and onLoad was invoked; a session cancelled before
\* the start is never started; and the token is consulted after each
\* suspension: a cancelled run that resumes from addSplatScenes takes no
\* further step and disposes its handle, and a run that resumes from its
\* awaited dispose() returns.
C24_StepOrder ==
  /\ [](\A s \in Opened :
          /\ IsPrefix(sess[s].steps, initViewerSteps)
          /\ sess[s].startCalls <= 1
          /\ Len(sess[s].steps) > 2 => sess[s].settled = "resolved"
          /\ sess[s].startCalls > 0 =>
                sess[s].settled = "resolved" /\ sess[s].onLoadCalls = 1
          /\ sess[s].abortedAt \in {"inflight", "beforestart"} =>
                sess[s].startCalls = 0
          /\ viewerRef = s => sess[s].startCalls = 1
          /\ sess[s].raf => sess[s].started)
  /\ [][\A s \in Sessions :
          (sess[s].pc = "loading" /\ sess[s].aborted /\ sess'[s].pc # "loading") =>
            /\ sess'[s].steps = sess[s].steps
            /\ sess'[s].disposeCalls = sess[s].disposeCalls + 1
            /\ sess'[s].pc = "disposing"]_vars
  /\ [][\A s \in Sessions :
          (sess[s].pc = "disposing" /\ sess'[s].pc # "disposing") =>
            sess'[s].pc = "done" /\ sess'[s].steps = sess[s].steps]_vars

\* C24 witness: a session has taken all seven steps and its handle is live
\* with a frame requested.
C24_Witness ==
  \E s \in Opened :
    /\ sess[s].steps = initViewerSteps /\ viewerRef = s /\ sess[s].raf
    /\ sess[s].onLoadCalls = 1 /\ sess[s].startCalls = 1 /\ stats # NoStats

\* A step taken by session s itself: its load settles, its renderer reports
\* progress, a disposal of its handle settles, or its frame callback fires.
OwnStep(s) ==
  \/ \E count \in SplatCounts, onLoad \in OnLoadOutcomes, start \in StartOutcomes,
        onError \in OnErrorOutcomes : LoadResolve(s, count, onLoad, start, onError)
  \/ \E onError \in OnErrorOutcomes : LoadReject(s, onError)
  \/ \E p \in ProgressTenths : Progress(s, p)
  \/ \E outcome \in DisposeOutcomes : DisposeSettle(s, outcome)
  \/ Animate(s)

\* C25: a step taken by a session whose token is set writes neither
\* isLoading nor loadProgress nor error nor stats, publishes no handle,
\* invokes no callback and touches no other session; in it the session at
\* most disposes its own handle, which is then disposed exactly once; and
\* no session ever forwarded progress with its token set.
C25_CancelledIsSilent ==
  /\ [][\A s \in Sessions : (sess[s].aborted /\ OwnStep(s)) =>
          /\ UNCHANGED <<isLoading, loadProgress, error, stats, viewerRef, cur>>
          /\ sess'[s].onLoadCalls = sess[s].onLoadCalls
          /\ sess'[s].onErrorCalls = sess[s].onErrorCalls
          /\ sess'[s].steps = sess[s].steps
          /\ sess'[s].startCalls = sess[s].startCalls
          /\ sess'[s].disposeCalls <= 1
          /\ \A t \in Sessions \ {s} : sess'[t] = sess[t]]_vars
  /\ [](\A s \in Opened : ~sess[s].progressAfterAbort /\ ~sess[s].cbAfterAbort)

\* C25 witness: the first session was cancelled in flight; its load has
\* resolved since and it disposed its handle, while the second session is
\* still loading with its own progress on screen.
C25_Witness ==
  /\ nsess = 2 /\ sess[1].abortedAt = "inflight" /\ sess[1].settled = "resolved"
  /\ sess[1].pc = "done" /\ sess[1].disposeCalls = 1
  /\ sess[1].steps = <<"construct", "addSplatScenes">>
  /\ sess[2].pc = "loading" /\ ~sess[2].aborted
  /\ isLoading /\ loadProgress = 50 /\ stats = NoStats /\ error = NoError

\* The overlays of the render: {isLoading && ...} and {error && ...}.
loadingOverlayShown == mounted /\ isLoading
errorOverlayShown == mounted /\ error # NoError

\* C26: the error is non-null only while the loading flag is false, so the
\* two overlays are never on screen together; a step in which an
\* uncancelled session fails leaves the error set and the loading flag
\* cleared; and a step that opens a session leaves the error cleared and
\* the loading flag set, unless that session's constructor threw at once,
\* in which case the error is that session's.
C26_ErrorReplacesLoading ==
  /\ [](error # NoError => ~isLoading)
  /\ [](~(loadingOverlayShown /\ errorOverlayShown))
  /\ [][\A s \in Sessions :
          (~sess[s].failed /\ sess'[s].failed /\ ~sess'[s].aborted) =>
            error' # NoError /\ ~isLoading']_vars
  /\ [][nsess' = nsess + 1 =>
          IF sess'[nsess'].constructed
            THEN error' = NoError /\ isLoading' /\ loadProgress' = 0
            ELSE /\ sess'[nsess'].failed /\ sess'[nsess'].onErrorCalls = 1
                 /\ error' # NoError /\ ~isLoading']_vars

\* C26 witness: the first session's load failed and the error was shown;
\* a second session was opened since and is loading with the error cleared.
C26_Witness ==
  /\ mounted /\ nsess = 2 /\ sess[1].settled = "rejected"
  /\ sess[1].onErrorCalls = 1 /\ sess[1].abortedAt = "over"
  /\ sess[2].pc = "loading" /\ ~sess[2].aborted
  /\ error = NoError /\ isLoading /\ loadingOverlayShown

\* The frame callback of session s runs updateFPS in this step.
Sampled(s) ==
  Animate(s) /\ animateGuard(s)

\* C27 as stated: a frame publishes a rate only when at least 1000 ms have
\* elapsed since the sample point, the published rate is
\* round(count * 1000 / elapsed) with count the number of frames rendered
\* after the sample point (the publishing frame included), and right after
\* the publication the counter is 0 and the sample point is the current
\* time.
C27_SamplerRate ==
  [][\A s \in Sessions : Sampled(s) =>
       IF lastTimeRef # 0 /\ now - lastTimeRef >= FpsWindowMs
         THEN /\ stats'.fps = Round((samplerLog.since + 1) * 1000, now - lastTimeRef)
              /\ frameCountRef' = 0 /\ lastTimeRef' = now
         ELSE stats' = stats]_vars

\* C27, the part the code keeps: a rate is published only when a sample
\* point exists and at least 1000 ms have elapsed since; the published rate
\* is round(counter * 1000 / elapsed), where the counter holds the frames
\* rendered after the sample point and, in the first window after a mount,
\* also the frame that set the sample point; right after the publication
\* the counter is 0 and the sample point is the current time.
C27_CounterRate ==
  /\ [][\A s \in Sessions : Sampled(s) =>
          IF lastTimeRef # 0 /\ now - lastTimeRef >= FpsWindowMs
            THEN /\ stats'.fps = Round((frameCountRef + 1) * 1000, now - lastTimeRef)
                 /\ frameCountRef' = 0 /\ lastTimeRef' = now
            ELSE stats' = stats /\ frameCountRef' = frameCountRef + 1]_vars
  /\ [](frameCountRef = samplerLog.since
          + (IF lastTimeRef # 0 /\ samplerLog.frames < 0 THEN 1 ELSE 0))

\* C27 witness: the first frame set the sample point, one more frame was
\* rendered 1000 ms later, and the rate published for that second is 2.
C27_Witness ==
  /\ samplerLog.frames = 1 /\ samplerLog.elapsed = 1000 /\ samplerLog.fps = 2
  /\ stats # NoStats /\ stats.fps = 2
  /\ frameCountRef = 0 /\ lastTimeRef = now

\* The load of session s is in flight: addSplatScenes was called and its
\* promise has not settled.
InFlight(s) ==
  sess[s].pc = "loading" /\ sess[s].settled = "none"

\* C28: nothing but the settling of its load moves a session past the load
\* step. While the load is in flight the session has invoked neither
\* onLoad nor onError, has not been started, and dispose() has not been
\* called on its handle - cancelled or not, mounted or not; and while it is
\* the uncancelled current session the loading flag stays set with no
\* error and no handle published.
C28_NoLoadTimeout ==
  /\ [][\A s \in Sessions :
          (InFlight(s) /\ sess'[s].pc # "loading") => sess'[s].settled # "none"]_vars
  /\ [](\A s \in Opened : InFlight(s) =>
          /\ sess[s].onLoadCalls = 0 /\ sess[s].onErrorCalls = 0
          /\ sess[s].startCalls = 0 /\ sess[s].disposeCalls = 0
          /\ sess[s].steps = <<"construct", "addSplatScenes">>
          /\ ~sess[s].aborted =>
                /\ isLoading /\ error = NoError /\ viewerRef = 0
                /\ mounted /\ cur = s)

\* C28 witness: the first session was cancelled while its load was in
\* flight; the second session has loaded and is live, the first load has
\* still not settled and its handle was never disposed.
C28_Witness ==
  /\ nsess = 2 /\ InFlight(1) /\ sess[1].abortedAt = "inflight"
  /\ sess[1].constructed /\ sess[1].disposeCalls = 0
  /\ viewerRef = 2 /\ sess[2].onLoadCalls = 1 /\ ~isLoading

\* The load of session s resolves in this step and its onLoad returns or
\* unmounts.
LegacyResumes(s) ==
  \E count \in SplatCounts, onLoad \in OnLoadOutcomes \ {"throws"},
     start \in StartOutcomes :
    LegacyLoadResolve(s, count, onLoad, start, "returns")

\* C29: in the legacy variant a teardown while addSplatScenes is in flight
\* disposes the run's handle, and when the load then resolves the run goes
\* on as if nothing had happened: it sets the stats, clears the loading
\* flag, invokes onLoad and calls start() on the handle that the teardown
\* disposed.
C29_LegacyStartsDisposed ==
  /\ [](\A s \in Opened : sess[s].abortedAt = "inflight" =>
          sess[s].disposeCalls = 1 /\ viewerRef # s)
  /\ [][\A s \in Sessions :
          (sess[s].abortedAt = "inflight" /\ LegacyResumes(s)) =>
            /\ sess'[s].onLoadCalls = 1 /\ stats' # NoStats /\ ~isLoading'
            /\ sess'[s].startCalls = 1 /\ sess'[s].usedAfterDispose
            /\ sess'[s].disposeCalls = 1]_vars

\* C29 witness: the component was unmounted while the only session's load
\* was in flight; the load has resolved since and start() was called on the
\* disposed handle, which now has a frame callback pending.
C29_Witness ==
  /\ ~mounted /\ nsess = 1 /\ sess[1].abortedAt = "inflight"
  /\ sess[1].settled = "resolved" /\ sess[1].disposeCalls = 1
  /\ sess[1].startCalls = 1 /\ sess[1].usedAfterDispose
  /\ sess[1].started /\ sess[1].raf /\ sess[1].onLoadCalls = 1

\* Handle s is bound to the container: constructed, and dispose() not yet
\* called on it.
Undisposed(s) ==
  sess[s].constructed /\ sess[s].disposeCalls = 0

\* C30 as stated: at most one constructed, not yet disposed handle is bound
\* to the container at any time.
C30_OneBinding ==
  \A s, t \in Opened : (Undisposed(s) /\ Undisposed(t)) => s = t

\* C30, the part the code keeps: at most one constructed, not yet disposed
\* handle belongs to a session that is not cancelled, and it is the handle
\* of the current session of the mounted component; and when a session
\* constructs its handle, every other handle still bound to the container
\* belongs to a cancelled session.
C30_OneUncancelledBinding ==
  /\ [](\A s \in Opened :
          (Undisposed(s) /\ ~sess[s].aborted) => (mounted /\ s = cur))
  /\ [][\A s \in Sessions :
          sess'[s].ctorCalls > sess[s].ctorCalls =>
            \A t \in Sessions \ {s} :
              (sess'[t].constructed /\ sess'[t].disposeCalls = 0) =>
                sess'[t].aborted]_vars

\* C30 witness: the second session constructed its handle and is loading
\* while the first session, cancelled in flight, still holds its own
\* undisposed handle on the same container.
C30_Witness ==
  /\ mounted /\ nsess = 2 /\ cur = 2
  /\ Undisposed(1) /\ sess[1].aborted /\ InFlight(1)
  /\ Undisposed(2) /\ ~sess[2].aborted /\ InFlight(2)

\* The current session is the one of the current selection, uncancelled and
\* with its load in flight.
SelectionInFlight ==
  /\ mounted /\ cur # 0 /\ cur = nsess /\ selectedModel # 0
  /\ InFlight(cur) /\ ~sess[cur].aborted
  /\ sess[cur].models.items = <<AVAILABLE_MODELS[selectedModel]>>

\* C31: whenever the shell's loading flag is true, the session of the
\* current selection is in flight, or the shell has not rendered yet and its
\* first render is about to open it; the committed selector is disabled
\* only while the flag is true or its clearing awaits a render; the step in
\* which the current session's load settles clears the flag, and the next
\* render enables the selector; and picking the option that is already
\* selected changes nothing.
C31_LoadingFlagTracksSession ==
  /\ [](appIsLoading =>
          IF appRendered THEN SelectionInFlight
                         ELSE renderPending /\ selectedModel # 0)
  /\ [](selectorDisabled => (appIsLoading \/ renderPending))
  /\ []((appRendered /\ ~appIsLoading /\ ~renderPending) => ~selectorDisabled)
  /\ [][(SelectionInFlight /\ sess'[cur].settled # "none") =>
          ~appIsLoading' /\ renderPending']_vars
  /\ [][pickSelectedOption =>
          UNCHANGED <<viewerVars, selectedModel, appIsLoading, selectorDisabled,
                      modelArray, renderPending>>]_vars

\* C31 witness: the selection's load settled, the flag returned to false
\* and the selector was enabled again; the user then picked the selected
\* model once more, and the flag is still false with the handle live.
C31_Witness ==
  /\ repicked /\ appRendered /\ ~appIsLoading /\ ~renderPending
  /\ ~selectorDisabled /\ cur # 0 /\ viewerRef = cur
  /\ sess[cur].onLoadCalls = 1 /\ sess[cur].settled = "resolved"

\* C32: in the shell composed with the viewer the selector is disabled
\* while an uncancelled session's load is in flight, and it is enabled again
\* only after the current session invoked onLoad or onError; a step that
\* changes the selection finds no load in flight; and no session is ever
\* cancelled while its load is in flight.
C32_SelectorDisabledWhileLoading ==
  /\ [](\A s \in Opened : (InFlight(s) /\ ~sess[s].aborted) =>
          (selectorDisabled /\ s = cur))
  /\ [][(selectorDisabled /\ ~selectorDisabled') =>
          (cur # 0 /\ sess[cur].onLoadCalls + sess[cur].onErrorCalls >= 1)]_vars
  /\ [][(appRendered /\ selectedModel' # selectedModel) =>
          (\A s \in Opened : ~InFlight(s))]_vars
  /\ [](\A s \in Opened : sess[s].abortedAt # "inflight")
  /\ [](\A s \in Opened : ~(InFlight(s) /\ sess[s].aborted))

\* C32 witness: the first selection's load settled with onLoad, the
\* selector was enabled again, the user selected another model, and that
\* selection's load is in flight behind the disabled selector; the first
\* session was cancelled while live, not mid-load.
C32_Witness ==
  /\ nsess = 2 /\ cur = 2 /\ InFlight(2) /\ ~sess[2].aborted
  /\ selectorDisabled /\ appIsLoading
  /\ sess[1].onLoadCalls = 1 /\ sess[1].abortedAt = "live"
  /\ sess[2].models.items # sess[1].models.items

\* C33: every session invokes at most one terminal callback: onLoad at most
\* once, onError at most once, and never both, whatever the renderer and the
\* callbacks do.
C33_OneTerminalCallback ==
  [](\A s \in Opened : /\ sess[s].onLoadCalls <= 1
                       /\ sess[s].onErrorCalls <= 1
                       /\ sess[s].onLoadCalls + sess[s].onErrorCalls <= 1)

\* What holds of the terminal callbacks: each is invoked at most once per
\* session, and a session invokes both only when its load resolved and the
\* run then went from onLoad (which threw, or after which start() threw)
\* into the catch block without being cancelled nor started.
C33_EachAtMostOnce ==
  [](\A s \in Opened :
        /\ sess[s].onLoadCalls <= 1
        /\ sess[s].onErrorCalls <= 1
        /\ (sess[s].onLoadCalls = 1 /\ sess[s].onErrorCalls = 1) =>
              (sess[s].settled = "resolved" /\ sess[s].failed /\ ~sess[s].started))

\* C33 witness: a session whose load resolved has invoked onLoad and then
\* onError.
C33_Witness ==
  \E s \in Opened : /\ sess[s].settled = "resolved"
                    /\ sess[s].onLoadCalls = 1 /\ sess[s].onErrorCalls = 1
                    /\ sess[s].steps # <<>>

\* C34: a step of a cancelled session (its late completion or failure, a
\* late progress report, the settling of its disposal, its pending frame
\* callback) leaves the published reference and every other session's
\* handle as they were; a teardown calls dispose() on no handle but the one
\* of the session it cancels, and the reference it clears holds that
\* session's handle; and dispose() is only ever called on a constructed
\* handle, in a step of its own session or in its session's teardown.
C34_OwnHandleOnly ==
  /\ [][\A s \in Opened : (sess[s].aborted /\ OwnStep(s)) =>
          /\ viewerRef' = viewerRef
          /\ \A t \in Sessions \ {s} : sess'[t] = sess[t]]_vars
  /\ [][Teardown =>
          /\ viewerRef \in {0, cur}
          /\ \A t \in Sessions \ {cur} :
                /\ sess'[t].disposeCalls = sess[t].disposeCalls
                /\ sess[t].started => sess'[t].started]_vars
  /\ [][\A t \in Sessions :
          sess'[t].disposeCalls # sess[t].disposeCalls =>
            /\ sess[t].constructed
            /\ OwnStep(t) \/ (Teardown /\ cur = t)]_vars

\* C34 witness: session 1 was cancelled in flight, session 2 went live
\* first, and then session 1's load failed: its handle was disposed while
\* the handle of session 2 stays published, started and undisposed.
C34_Witness ==
  /\ nsess = 2 /\ sess[1].abortedAt = "inflight"
  /\ sess[1].settled = "rejected" /\ sess[1].settledWhileLive
  /\ sess[1].disposeCalls = 1 /\ sess[1].onErrorCalls = 0
  /\ viewerRef = 2 /\ Live(2) /\ sess[2].disposeCalls = 0

\* C35: viewerRef.current is empty, or it holds a handle on which start()
\* was called and dispose() was not, and which belongs to the current
\* session - the most recently opened one, uncancelled, of a mounted
\* viewer; and the step that publishes a handle has just started it.
C35_PublishedHandle ==
  /\ [](viewerRef # 0 =>
          /\ mounted /\ viewerRef = cur /\ viewerRef = nsess
          /\ sess[viewerRef].constructed /\ sess[viewerRef].started
          /\ sess[viewerRef].startCalls = 1
          /\ sess[viewerRef].disposeCalls = 0
          /\ ~sess[viewerRef].aborted)
  /\ [][(viewerRef' # 0 /\ viewerRef' # viewerRef) =>
          (viewerRef = 0 /\ ~sess[viewerRef'].started)]_vars

\* C35 witness: the handle of session 1 was published, torn down and
\* disposed, and the reference now holds the started, undisposed handle of
\* session 2.
C35_Witness ==
  /\ nsess = 2 /\ cur = 2 /\ viewerRef = 2
  /\ sess[2].started /\ sess[2].disposeCalls = 0 /\ ~sess[2].aborted
  /\ sess[1].started /\ sess[1].aborted /\ sess[1].disposeCalls = 1
  /\ sess[1].disposeResult # "pending"

\* The current session is uncancelled, was opened for the current models
\* reference, and its load is in flight.
CurrentInFlight ==
  /\ cur # 0 /\ InFlight(cur) /\ ~sess[cur].aborted
  /\ sess[cur].models = models

\* C36: the mounted viewer's loading flag is true only while an uncancelled
\* session for the current models reference is in flight; in particular it
\* is false whenever no session exists.
C36_LoadingOnlyInFlight ==
  /\ []((mounted /\ isLoading) => CurrentInFlight)
  /\ []((mounted /\ cur = 0) => ~isLoading)

\* What holds of the loading flag: with a non-empty models list it is true
\* only while the uncancelled session of that list is in flight, and the
\* flag is true throughout such a load; a step that leaves the mounted
\* viewer with an empty list neither sets nor clears it; and a mount with
\* an empty list leaves it at its initial value, true.
C36_LoadingWithModels ==
  /\ []((mounted /\ isLoading /\ Len(models.items) > 0) => CurrentInFlight)
  /\ []((mounted /\ CurrentInFlight) => isLoading)
  /\ [][(mounted /\ mounted' /\ Len(models'.items) = 0) =>
          isLoading' = isLoading]_vars
  /\ [][(~mounted /\ mounted' /\ Len(models'.items) = 0) => isLoading']_vars

\* C36 witness: a session was cancelled while its load was in flight by a
\* change to an empty models list; its load has since settled and it is
\* over, no session exists, and the loading flag is still true.
C36_Witness ==
  /\ mounted /\ Len(models.items) = 0 /\ cur = 0 /\ isLoading
  /\ nsess = 1 /\ sess[1].abortedAt = "inflight" /\ sess[1].pc = "done"

\* The handle of session s goes live in this step.
GoesLive(s) ==
  viewerRef # s /\ viewerRef' = s

\* The frame callback of session s publishes a rate in this step.
Publishes(s) ==
  Sampled(s) /\ lastTimeRef # 0 /\ now - lastTimeRef >= FpsWindowMs

\* C37: sampler state is per session: when a handle goes live the frame
\* counter is 0 and there is no sample point, whatever an earlier session
\* left in them; and the interval over which a session's frame callback
\* publishes a rate starts no earlier than the session was opened (hence
\* not before its handle went live).
C37_SamplerPerSession ==
  /\ [][\A s \in Sessions : GoesLive(s) =>
          (frameCountRef' = 0 /\ lastTimeRef' = 0)]_vars
  /\ [][\A s \in Sessions : Publishes(s) =>
          (lastTimeRef >= sess[s].startTime /\ lastTimeRef > 0)]_vars

\* What holds of the sampler state: it is per mount. The frame counter and
\* the sample point are reset by a mount and changed by nothing but a
\* sampling frame callback: a teardown, a re-initialization and a handle
\* going live leave them as the previous session left them.
C37_SamplerPerMount ==
  /\ [][(~mounted /\ mounted') => (frameCountRef' = 0 /\ lastTimeRef' = 0)]_vars
  /\ [][(mounted \/ ~mounted') =>
          \/ \E s \in Sessions : Sampled(s)
          \/ UNCHANGED <<frameCountRef, lastTimeRef>>]_vars
  /\ [][\A s \in Sessions : GoesLive(s) =>
          UNCHANGED <<frameCountRef, lastTimeRef>>]_vars

\* C37 witness: the handle of session 2 is live and its frame callback has
\* just published a rate over an interval that is longer than the time
\* since session 2 was opened: the sample point was set by session 1.
C37_Witness ==
  /\ nsess = 2 /\ viewerRef = 2 /\ Live(2) /\ sess[1].started
  /\ samplerLog.fps >= 0 /\ lastTimeRef = now /\ frameCountRef = 0
  /\ stats # NoStats /\ stats.fps = samplerLog.fps
  /\ samplerLog.elapsed > now - sess[2].startTime

\* Session s has a frame-sampling chain: an animation-frame callback is
\* pending that will sample and reschedule when it fires.
Chain(s) ==
  sess[s].raf /\ animateGuard(s)

\* C38: at most one frame-sampling chain exists at any time, and it is the
\* chain of the current session, whose handle is the published one; a
\* session requests its first animation frame only in the step in which
\* its handle goes live; and the pending callback of a cancelled session
\* neither samples nor reschedules when it fires.
C38_OneSamplingChain ==
  /\ [](Cardinality({s \in Opened : Chain(s)}) <= 1)
  /\ [](\A s \in Opened : Chain(s) => (mounted /\ s = cur /\ viewerRef = s))
  /\ [][\A s \in Sessions : (~sess[s].raf /\ sess'[s].raf) =>
          (viewerRef # s /\ viewerRef' = s /\ ~sess[s].started)]_vars
  /\ [][\A s \in Sessions : (Animate(s) /\ ~Chain(s)) =>
          (~sess'[s].raf /\ UNCHANGED <<frameCountRef, lastTimeRef, stats>>)]_vars

\* C38 witness: after a teardown and a re-initialization two animation-
\* frame callbacks are pending, the one of the cancelled session 1 and the
\* one of the live session 2, and only the latter is a sampling chain.
C38_Witness ==
  /\ nsess = 2 /\ sess[1].raf /\ sess[1].aborted /\ ~Chain(1)
  /\ sess[2].raf /\ Chain(2) /\ viewerRef = 2

====
